---- MODULE Spec2Model ----
(***************************************************************************)
(* Model of src/grid/mod.rs: the NegativeIndexed trait, NegativeIndexVec<T> *)
(* (a one-dimensional array over signed indices) and Grid<T> (a sparse     *)
(* two-dimensional grid of lazily created NegativeIndexVec columns with a   *)
(* bounding box).                                                           *)
(*                                                                          *)
(* Option<T> is a sequence of length 0 (None) or 1 (Some).  Every operation *)
(* that can panic returns a record [panic, val]; val is the receiver as the *)
(* panic leaves it (for &mut self methods) or the returned Option.          *)
(***************************************************************************)
EXTENDS Integers, Sequences, FiniteSets, TLC

VARIABLES
    grid,             \* the Grid<T>: positive, negative, min_x, max_x, min_y, max_y
    vec,              \* a stand-alone NegativeIndexVec<T>
    written,          \* history: (x, y) |-> item of the latest Grid::set(x, y, item)
    vecWritten,       \* history: index |-> item of the latest NegativeIndexVec::set
    nsets,            \* number of set calls made so far by the caller
    last,             \* arguments <<x, y>> (grid) or <<index>> (vec) of the latest set
    ret,              \* what the latest call was and what it returned
    caller,           \* who drives the container: "grid", "vec" or "test"
    tpc, tx, ty,      \* tests::negative_grid: phase and loop variables
    overflow_checks   \* build profile: TRUE = overflow checks on (debug, test)

vars == <<grid, vec, written, vecWritten, nsets, last, ret, caller, tpc, tx, ty,
          overflow_checks>>

----------------------------------------------------------------------------
(* Bounds of the model *)

MaxX      == 1      \* Grid::set is called with x in -MaxX..MaxX
MaxY      == 0      \* ... and y in -MaxY..MaxY
MaxIndex  == 3      \* NegativeIndexVec::set is called with index in -MaxIndex..MaxIndex
MaxSets   == 2      \* number of Grid::set calls of the arbitrary caller
MaxVecSets == 3     \* number of NegativeIndexVec::set calls of the arbitrary caller
IsizeBits == 8      \* width of isize/usize in the model (64 on the real target)

TestRange == 10     \* tests::negative_grid writes -10..=10 on both axes

IsizeMin == -(2 ^ (IsizeBits - 1))
UsizeMod == 2 ^ IsizeBits

XCoord == (-MaxX)..MaxX
YCoord == (-MaxY)..MaxY
Index == (-MaxIndex)..MaxIndex

\* Arguments of the reads: the written range, one step beyond it on either
\* side, and isize::MIN.
ReadX == ((-(MaxX + 1))..(MaxX + 1)) \cup {IsizeMin}
ReadY == ((-(MaxY + 1))..(MaxY + 1)) \cup {IsizeMin}
ReadIndex == ((-(MaxIndex + 1))..(MaxIndex + 1)) \cup {IsizeMin}

----------------------------------------------------------------------------
(* Rust primitives *)

None == <<>>
Some(v) == <<v>>
is_none(o) == Len(o) = 0
Unwrapped(o) == o[1]

Ok(v) == [panic |-> FALSE, val |-> v]
Panic(v) == [panic |-> TRUE, val |-> v]

\* isize::abs: isize::MIN has no absolute value; with overflow checks the call
\* panics, without them it returns isize::MIN.
abs(i) ==
    IF i = IsizeMin
    THEN (IF overflow_checks THEN Panic(i) ELSE Ok(i))
    ELSE Ok(IF i < 0 THEN -i ELSE i)

\* `i as usize`
as_usize(i) == i % UsizeMod

\* v[i] on a Vec with a usize index i (0-based): panics when out of bounds.
InBounds(v, i) == i >= 0 /\ i < Len(v)
At(v, i) == v[i + 1]
PutAt(v, i, e) == [v EXCEPT ![i + 1] = e]

\* Number of iterations of the ranges `a..b` and `a..=b` over usize.
RangeLen(a, b) == IF b > a THEN b - a ELSE 0
RangeInclusiveLen(a, b) == IF b >= a THEN b - a + 1 ELSE 0

RECURSIVE PushTimes(_, _, _)
PushTimes(v, n, e) == IF n = 0 THEN v ELSE PushTimes(Append(v, e), n - 1, e)

----------------------------------------------------------------------------
(* trait NegativeIndexed: self is any record with fields positive, negative *)

positive_len(self) == Len(self.positive)
negative_len(self) == Len(self.negative)
push_positive_times(self, n) == [self EXCEPT !.positive = PushTimes(@, n, None)]
push_negative_times(self, n) == [self EXCEPT !.negative = PushTimes(@, n, None)]

\* Mutant of existence: the non-negative side compares with <= instead of <.
existence_le(self, index) ==
    IF index >= 0 /\ as_usize(index) <= positive_len(self)
    THEN "Positive"
    ELSE IF index < 0
         THEN (IF abs(index).panic THEN "Panic"
               ELSE IF as_usize(abs(index).val) <= negative_len(self)
                    THEN "Negative" ELSE "Nonexistent")
         ELSE "Nonexistent"

existence(self, index) ==
    IF index >= 0 /\ as_usize(index) < positive_len(self)
    THEN "Positive"
    ELSE IF index < 0
         THEN (IF abs(index).panic THEN "Panic"
               ELSE IF as_usize(abs(index).val) <= negative_len(self)
                    THEN "Negative" ELSE "Nonexistent")
         ELSE "Nonexistent"

\* Mutant of assert_size: resizes the side to exactly the requested length,
\* truncating a longer one.
assert_size_resize(self, size) ==
    IF size >= 0
    THEN Ok([self EXCEPT !.positive =
                [k \in 1..(size + 1) |-> IF k <= Len(@) THEN @[k] ELSE None]])
    ELSE Ok([self EXCEPT !.negative =
                [k \in 1..(-size) |-> IF k <= Len(@) THEN @[k] ELSE None]])

\* Mutant of assert_size: the non-negative range is exclusive (a..size instead
\* of a..=size) and the negative range inclusive.
assert_size_exclusive(self, size) ==
    IF size >= 0
    THEN Ok(push_positive_times(self,
                RangeLen(positive_len(self), as_usize(size))))
    ELSE IF abs(size).panic
         THEN Panic(self)
         ELSE Ok(push_negative_times(self,
                    RangeInclusiveLen(negative_len(self), as_usize(abs(size).val))))

assert_size(self, size) ==
    IF size >= 0
    THEN Ok(push_positive_times(self,
                RangeInclusiveLen(positive_len(self), as_usize(size))))
    ELSE IF abs(size).panic
         THEN Panic(self)
         ELSE Ok(push_negative_times(self,
                    RangeLen(negative_len(self), as_usize(abs(size).val))))

----------------------------------------------------------------------------
(* NegativeIndexVec<T> *)

NegativeIndexVec_new == [positive |-> <<>>, negative |-> <<>>]

\* Index i >= 0 is positive[i]; index i < 0 is negative[|i| - 1].
NegativeIndexVec_set(self, index, item) ==
    LET sized == assert_size(self, index) IN
    IF sized.panic THEN sized
    ELSE LET s == sized.val IN
         IF index >= 0
         THEN (IF InBounds(s.positive, as_usize(index))
               THEN Ok([s EXCEPT !.positive = PutAt(@, as_usize(index), Some(item))])
               ELSE Panic(s))
         ELSE (IF abs(index).panic THEN Panic(s)
               ELSE IF InBounds(s.negative, as_usize(abs(index).val) - 1)
                    THEN Ok([s EXCEPT !.negative =
                                PutAt(@, as_usize(abs(index).val) - 1, Some(item))])
                    ELSE Panic(s))

NegativeIndexVec_get(self, index) ==
    LET e == existence(self, index) IN
    IF e = "Positive"
    THEN (IF InBounds(self.positive, as_usize(index))
          THEN Ok(At(self.positive, as_usize(index))) ELSE Panic(None))
    ELSE IF e = "Negative"
    THEN (IF abs(index).panic THEN Panic(None)
          ELSE IF InBounds(self.negative, as_usize(abs(index).val) - 1)
               THEN Ok(At(self.negative, as_usize(abs(index).val) - 1))
               ELSE Panic(None))
    ELSE IF e = "Panic" THEN Panic(None)
    ELSE Ok(None)

\* get_mut does the lookup of get; the handle it returns designates the same
\* slot content.  The receiver after the call is its second component.
NegativeIndexVec_get_mut(self, index) ==
    [out |-> NegativeIndexVec_get(self, index), self |-> self]

----------------------------------------------------------------------------
(* Grid<T>: self is a record positive, negative, min_x, max_x, min_y, max_y *)

\* Mutant of Grid_new: the bounds start as an empty box (minima at isize::MAX,
\* maxima at isize::MIN), so that the first set defines them.
Grid_new_empty_box ==
    [positive |-> <<>>, negative |-> <<>>,
     min_x |-> -(IsizeMin + 1), max_x |-> IsizeMin,
     min_y |-> -(IsizeMin + 1), max_y |-> IsizeMin]

Grid_new ==
    [positive |-> <<>>, negative |-> <<>>,
     min_x |-> 0, max_x |-> 0, min_y |-> 0, max_y |-> 0]

min_x(self) == self.min_x
max_x(self) == self.max_x
min_y(self) == self.min_y
max_y(self) == self.max_y

\* Mutant of assert_existence: installs a fresh column whether or not the
\* slot already holds one.
assert_existence_always(self, x) ==
    IF x >= 0
    THEN (IF InBounds(self.positive, as_usize(x))
          THEN Ok([self EXCEPT !.positive =
                      PutAt(@, as_usize(x), Some(NegativeIndexVec_new))])
          ELSE Panic(self))
    ELSE (IF InBounds(self.negative, (-x) - 1)
          THEN Ok([self EXCEPT !.negative =
                      PutAt(@, (-x) - 1, Some(NegativeIndexVec_new))])
          ELSE Panic(self))

\* Mutant of assert_existence: fills every empty slot of the side up to x with
\* a fresh column, not only the slot of x.
assert_existence_upto(self, x) ==
    LET Fill(side, n) ==
            [k \in 1..Len(side) |->
                IF k <= n /\ is_none(side[k]) THEN Some(NegativeIndexVec_new)
                ELSE side[k]]
    IN  IF x >= 0
        THEN (IF InBounds(self.positive, as_usize(x))
              THEN Ok([self EXCEPT !.positive = Fill(@, x + 1)])
              ELSE Panic(self))
        ELSE (IF InBounds(self.negative, (-x) - 1)
              THEN Ok([self EXCEPT !.negative = Fill(@, -x)])
              ELSE Panic(self))

assert_existence(self, x) ==
    IF x >= 0
    THEN (IF ~InBounds(self.positive, as_usize(x)) THEN Panic(self)
          ELSE IF is_none(At(self.positive, as_usize(x)))
               THEN Ok([self EXCEPT !.positive =
                           PutAt(@, as_usize(x), Some(NegativeIndexVec_new))])
               ELSE Ok(self))
    ELSE (IF abs(x).panic \/ ~InBounds(self.negative, as_usize(abs(x).val) - 1)
          THEN Panic(self)
          ELSE IF is_none(At(self.negative, as_usize(abs(x).val) - 1))
               THEN Ok([self EXCEPT !.negative =
                           PutAt(@, as_usize(abs(x).val) - 1,
                                 Some(NegativeIndexVec_new))])
               ELSE Ok(self))

\* Mutant of update_boundaries: the two x assignments are swapped.
update_boundaries_swapped(self, x, y) ==
    LET sx == IF x < self.min_x THEN [self EXCEPT !.max_x = x]
              ELSE IF x > self.max_x THEN [self EXCEPT !.min_x = x]
              ELSE self
    IN  IF y < sx.min_y THEN [sx EXCEPT !.min_y = y]
        ELSE IF y > sx.max_y THEN [sx EXCEPT !.max_y = y]
        ELSE sx

\* Mutant of update_boundaries: max_x and max_y are assigned whenever the
\* coordinate is not below the minimum.
update_boundaries_else(self, x, y) ==
    LET sx == IF x < self.min_x THEN [self EXCEPT !.min_x = x]
              ELSE [self EXCEPT !.max_x = x]
    IN  IF y < sx.min_y THEN [sx EXCEPT !.min_y = y]
        ELSE [sx EXCEPT !.max_y = y]

update_boundaries(self, x, y) ==
    LET sx == IF x < self.min_x THEN [self EXCEPT !.min_x = x]
              ELSE IF x > self.max_x THEN [self EXCEPT !.max_x = x]
              ELSE self
    IN  IF y < sx.min_y THEN [sx EXCEPT !.min_y = y]
        ELSE IF y > sx.max_y THEN [sx EXCEPT !.max_y = y]
        ELSE sx

\* self.<side>[i].as_mut().unwrap().set(y, item)
ColumnSet(self, side, i, y, item) ==
    IF ~InBounds(self[side], i) THEN Panic(self)
    ELSE IF is_none(At(self[side], i)) THEN Panic(self)
    ELSE LET r == NegativeIndexVec_set(Unwrapped(At(self[side], i)), y, item) IN
         [panic |-> r.panic,
          val |-> [self EXCEPT ![side] = PutAt(@, i, Some(r.val))]]

\* Mutant of Grid_set: the call of assert_existence is left out.
Grid_set_no_column(self, x, y, item) ==
    LET sized == assert_size(self, x) IN
    IF sized.panic THEN sized
    ELSE LET s == update_boundaries(sized.val, x, y) IN
         IF x >= 0
         THEN ColumnSet(s, "positive", as_usize(x), y, item)
         ELSE IF abs(x).panic THEN Panic(s)
              ELSE ColumnSet(s, "negative", as_usize(abs(x).val) - 1, y, item)

Grid_set(self, x, y, item) ==
    LET sized == assert_size(self, x) IN
    IF sized.panic THEN sized
    ELSE LET made == assert_existence(sized.val, x) IN
         IF made.panic THEN made
         ELSE LET s == update_boundaries(made.val, x, y) IN
              IF x >= 0
              THEN ColumnSet(s, "positive", as_usize(x), y, item)
              ELSE IF abs(x).panic THEN Panic(s)
                   ELSE ColumnSet(s, "negative", as_usize(abs(x).val) - 1, y, item)

\* self.<side>[i].as_ref().unwrap().get(y)
ColumnGet(self, side, i, y) ==
    IF ~InBounds(self[side], i) THEN Panic(None)
    ELSE IF is_none(At(self[side], i)) THEN Panic(None)
    ELSE NegativeIndexVec_get(Unwrapped(At(self[side], i)), y)

Grid_get(self, x, y) ==
    LET e == existence(self, x) IN
    IF e = "Positive" THEN ColumnGet(self, "positive", as_usize(x), y)
    ELSE IF e = "Negative"
    THEN (IF abs(x).panic THEN Panic(None)
          ELSE ColumnGet(self, "negative", as_usize(abs(x).val) - 1, y))
    ELSE IF e = "Panic" THEN Panic(None)
    ELSE Ok(None)

\* Mutant of Grid_get_mut: prepares the slot the way set does (grows the x
\* level and creates the column) before looking it up.
Grid_get_mut_grow(self, x, y) ==
    LET sized == assert_size(self, x) IN
    IF sized.panic THEN [out |-> Panic(None), self |-> self]
    ELSE LET made == assert_existence(sized.val, x) IN
         [out |-> Grid_get(made.val, x, y), self |-> made.val]

Grid_get_mut(self, x, y) ==
    [out |-> Grid_get(self, x, y), self |-> self]

----------------------------------------------------------------------------
(* History *)

NoWrites == [p \in {} |-> 0]
Record(h, key, item) ==
    [p \in (DOMAIN h) \cup {key} |-> IF p = key THEN item ELSE h[p]]
Written(x, y) == IF <<x, y>> \in DOMAIN written THEN Some(written[<<x, y>>]) ELSE None
VecWritten(i) == IF i \in DOMAIN vecWritten THEN Some(vecWritten[i]) ELSE None

Returned(op, r) == [op |-> op, panic |-> r.panic, val |-> r.val]

----------------------------------------------------------------------------
(* State machine *)

Init ==
    /\ grid = Grid_new
    /\ vec = NegativeIndexVec_new
    /\ written = NoWrites
    /\ vecWritten = NoWrites
    /\ nsets = 0
    /\ last = <<>>
    /\ ret = Returned("new", Ok(None))
    /\ caller \in {"grid", "vec", "test"}
    /\ tpc = "write"
    /\ tx = -TestRange
    /\ ty = -TestRange
    /\ overflow_checks \in BOOLEAN

\* An arbitrary caller of Grid::set
GridSet(x, y, item) ==
    /\ caller = "grid"
    /\ nsets < MaxSets
    /\ LET r == Grid_set(grid, x, y, item) IN
         /\ grid' = r.val
         /\ written' = IF r.panic THEN written ELSE Record(written, <<x, y>>, item)
         /\ ret' = Returned("set", [panic |-> r.panic, val |-> None])
    /\ nsets' = nsets + 1
    /\ last' = <<x, y>>
    /\ UNCHANGED <<vec, vecWritten, caller, tpc, tx, ty, overflow_checks>>

\* An arbitrary caller of Grid::get
GridGet(x, y) ==
    /\ caller = "grid"
    /\ ret' = Returned("get", Grid_get(grid, x, y))
    /\ UNCHANGED <<grid, vec, written, vecWritten, nsets, last, caller, tpc, tx, ty,
                   overflow_checks>>

\* An arbitrary caller of Grid::get_mut (the handle is not written through)
GridGetMut(x, y) ==
    /\ caller = "grid"
    /\ LET r == Grid_get_mut(grid, x, y) IN
         /\ grid' = r.self
         /\ ret' = Returned("get_mut", r.out)
    /\ UNCHANGED <<vec, written, vecWritten, nsets, last, caller, tpc, tx, ty,
                   overflow_checks>>

\* An arbitrary caller of NegativeIndexVec::set
VecSet(i, item) ==
    /\ caller = "vec"
    /\ nsets < MaxVecSets
    /\ LET r == NegativeIndexVec_set(vec, i, item) IN
         /\ vec' = r.val
         /\ vecWritten' = IF r.panic THEN vecWritten ELSE Record(vecWritten, i, item)
         /\ ret' = Returned("set", [panic |-> r.panic, val |-> None])
    /\ nsets' = nsets + 1
    /\ last' = <<i>>
    /\ UNCHANGED <<grid, written, caller, tpc, tx, ty, overflow_checks>>

VecGet(i) ==
    /\ caller = "vec"
    /\ ret' = Returned("get", NegativeIndexVec_get(vec, i))
    /\ UNCHANGED <<grid, vec, written, vecWritten, nsets, last, caller, tpc, tx, ty,
                   overflow_checks>>

VecGetMut(i) ==
    /\ caller = "vec"
    /\ LET r == NegativeIndexVec_get_mut(vec, i) IN
         /\ vec' = r.self
         /\ ret' = Returned("get_mut", r.out)
    /\ UNCHANGED <<grid, written, vecWritten, nsets, last, caller, tpc, tx, ty,
                   overflow_checks>>

\* tests::negative_grid, first loop nest: grid.set(x, y, x + y)
TestWrite ==
    /\ caller = "test"
    /\ tpc = "write"
    /\ LET r == Grid_set(grid, tx, ty, tx + ty) IN
         /\ grid' = r.val
         /\ written' = IF r.panic THEN written ELSE Record(written, <<tx, ty>>, tx + ty)
         /\ ret' = Returned("set", [panic |-> r.panic, val |-> None])
         /\ IF r.panic
            THEN tpc' = "failed" /\ UNCHANGED <<tx, ty>>
            ELSE IF ty < TestRange
            THEN tpc' = "write" /\ tx' = tx /\ ty' = ty + 1
            ELSE IF tx < TestRange
            THEN tpc' = "write" /\ tx' = tx + 1 /\ ty' = -TestRange
            ELSE IF min_x(r.val) <= max_x(r.val) /\ min_y(r.val) <= max_y(r.val)
            THEN tpc' = "read" /\ tx' = min_x(r.val) /\ ty' = min_y(r.val)
            ELSE tpc' = "done" /\ UNCHANGED <<tx, ty>>
    /\ nsets' = nsets + 1
    /\ last' = <<tx, ty>>
    /\ UNCHANGED <<vec, vecWritten, caller, overflow_checks>>

\* tests::negative_grid, second loop nest:
\* assert_eq!(*grid.get(x, y).unwrap(), x + y) over the bounding box
TestRead ==
    /\ caller = "test"
    /\ tpc = "read"
    /\ LET r == Grid_get(grid, tx, ty) IN
         /\ ret' = Returned("get", r)
         /\ IF r.panic \/ r.val /= Some(tx + ty)
            THEN tpc' = "failed" /\ UNCHANGED <<tx, ty>>
            ELSE IF ty < max_y(grid)
            THEN tpc' = "read" /\ tx' = tx /\ ty' = ty + 1
            ELSE IF tx < max_x(grid)
            THEN tpc' = "read" /\ tx' = tx + 1 /\ ty' = min_y(grid)
            ELSE tpc' = "done" /\ UNCHANGED <<tx, ty>>
    /\ UNCHANGED <<grid, vec, written, vecWritten, nsets, last, caller, overflow_checks>>

\* The item of the k-th set is k: T is generic and the code never inspects an
\* item, so distinct items make every overwrite visible.
FreshItem == nsets + 1

\* The arbitrary callers read after construction and after every set; a read
\* changes nothing but ret, so it is followed by the next set.
MayRead == ret.op \in {"new", "set"}

Next ==
    \/ \E x \in XCoord, y \in YCoord : GridSet(x, y, FreshItem)
    \/ \E x \in ReadX, y \in ReadY : MayRead /\ GridGet(x, y)
    \/ \E x \in ReadX, y \in ReadY : MayRead /\ GridGetMut(x, y)
    \/ \E i \in Index : VecSet(i, FreshItem)
    \/ \E i \in ReadIndex : MayRead /\ VecGet(i)
    \/ \E i \in ReadIndex : MayRead /\ VecGetMut(i)
    \/ TestWrite
    \/ TestRead

Spec == Init /\ [][Next]_vars

----------------------------------------------------------------------------
(* Vocabulary of the properties *)

MinOf(S) == CHOOSE m \in S : \A k \in S : m <= k
MaxOf(S) == CHOOSE m \in S : \A k \in S : m >= k
WrittenXs == {p[1] : p \in DOMAIN written}
WrittenYs == {p[2] : p \in DOMAIN written}

\* The coordinates the properties probe: those the caller can have written,
\* one step beyond, and isize::MIN.
TestProbe == ((-(TestRange + 1))..(TestRange + 1)) \cup {IsizeMin}
ProbeX == IF caller = "test" THEN TestProbe ELSE ReadX
ProbeY == IF caller = "test" THEN TestProbe ELSE ReadY
Small(S) == S \ {IsizeMin}

\* The column stored for x, as an Option: None when x is outside the grown x
\* range or its slot is empty.
ColumnAt(self, x) ==
    IF x >= 0 /\ x < positive_len(self) THEN At(self.positive, x)
    ELSE IF x < 0 /\ -x <= negative_len(self) THEN At(self.negative, (-x) - 1)
    ELSE None

\* The classification the specification gives for sides of length n and m.
Classified(n, m, index) ==
    IF index >= 0 /\ index <= n - 1 THEN "Positive"
    ELSE IF index <= -1 /\ index >= -m THEN "Negative"
    ELSE "Nonexistent"

GridFresh == caller = "vec" \/ nsets = 0
GridWrites == caller /= "vec" /\ nsets > 0

----------------------------------------------------------------------------
(* Claims *)

\* C1: get(x, y) on a pair that no set has targeted completes and returns
\* absent, also when x is inside the grown x range with no column, or the
\* column exists and y was never written.  Stated here for the coordinates of
\* small magnitude only (isize::MIN left out).
C1_UnwrittenIsAbsent ==
    \A x \in Small(ProbeX), y \in Small(ProbeY) :
        Written(x, y) = None => Grid_get(grid, x, y) = Ok(None)

\* C2: after at least one set, min_x/max_x are the minimum/maximum x ever
\* written and min_y/max_y the minimum/maximum y ever written.
C2_BoxIsSmallest ==
    GridWrites =>
        /\ min_x(grid) = MinOf(WrittenXs) /\ max_x(grid) = MaxOf(WrittenXs)
        /\ min_y(grid) = MinOf(WrittenYs) /\ max_y(grid) = MaxOf(WrittenYs)

\* C3: get on every written pair returns the item of the latest set to that
\* pair; and in tests::negative_grid, once x + y has been written to every pair
\* of [-10,10] x [-10,10], the box is [-10,10] x [-10,10], every pair of the
\* box reads x + y, and no assertion of the test fails.
C3_ReadBack ==
    /\ \A p \in DOMAIN written : Grid_get(grid, p[1], p[2]) = Ok(Some(written[p]))
    /\ tpc /= "failed"
    /\ tpc \in {"read", "done"} =>
          /\ min_x(grid) = -TestRange /\ max_x(grid) = TestRange
          /\ min_y(grid) = -TestRange /\ max_y(grid) = TestRange
          /\ \A x \in min_x(grid)..max_x(grid), y \in min_y(grid)..max_y(grid) :
                Grid_get(grid, x, y) = Ok(Some(x + y))

\* C3 witness: the test has written all 441 pairs and read the whole box back.
C3_Witness ==
    /\ caller = "test" /\ tpc = "done"
    /\ Cardinality(DOMAIN written) = (2 * TestRange + 1) * (2 * TestRange + 1)
    /\ ret = Returned("get", Ok(Some(2 * TestRange)))

\* C4: on the one-dimensional vec, get(i) returns the latest item written to i
\* for every written i, and absent for every unwritten index inside the grown
\* range.
C4_VecReadBack ==
    /\ \A i \in DOMAIN vecWritten :
          NegativeIndexVec_get(vec, i) = Ok(Some(vecWritten[i]))
    /\ \A j \in Small(ReadIndex) :
          (j \notin DOMAIN vecWritten
             /\ j < positive_len(vec) /\ -j <= negative_len(vec))
          => NegativeIndexVec_get(vec, j) = Ok(None)

\* C4 witness: a set of smaller magnitude came after a set of larger magnitude
\* on the same side, an unwritten index lies between them, and the read after
\* it found an item.
C4_Witness ==
    /\ caller = "vec" /\ nsets >= 2
    /\ \E i \in DOMAIN vecWritten :
          /\ i < -1 /\ last[1] < 0 /\ last[1] > i + 1
          /\ i + 1 \notin DOMAIN vecWritten
    /\ \E i \in DOMAIN vecWritten : i > 1 /\ 1 \notin DOMAIN vecWritten
    /\ ret.op = "get" /\ ~ret.panic /\ ret.val /= None

\* C5: after each set(x, y, _) the box contains (x, y), and no step ever
\* raises min_x or min_y or lowers max_x or max_y.
C5_BoxContainsAndGrows ==
    /\ [](GridWrites =>
            /\ min_x(grid) <= last[1] /\ last[1] <= max_x(grid)
            /\ min_y(grid) <= last[2] /\ last[2] <= max_y(grid))
    /\ [][/\ min_x(grid') <= min_x(grid) /\ max_x(grid') >= max_x(grid)
          /\ min_y(grid') <= min_y(grid) /\ max_y(grid') >= max_y(grid)]_vars

\* C5 witness: the latest set targeted a pair strictly inside a box that an
\* earlier set had widened.
C5_Witness ==
    /\ caller = "grid" /\ nsets = 2 /\ ret.op = "set"
    /\ last[1] = 0 /\ (max_x(grid) > 0 \/ min_x(grid) < 0)

\* Storage part of C6: a set at x leaves the stored column of every other x'
\* (presence, both sides, every slot) as it was.
OtherColumnsStored ==
    [][(caller /= "vec" /\ nsets' = nsets + 1) =>
          \A x2 \in Small(ProbeX) \ {last'[1]} :
              ColumnAt(grid', x2) = ColumnAt(grid, x2)]_vars

\* C6: a set at x leaves every other column x' unchanged: its presence, its
\* sides and slots, and hence get(x', y') for every y'.
C6_OtherColumnsUnchanged ==
    [][(caller /= "vec" /\ nsets' = nsets + 1) =>
          \A x2 \in Small(ProbeX) \ {last'[1]} :
              /\ ColumnAt(grid', x2) = ColumnAt(grid, x2)
              /\ \A y2 \in Small(ProbeY) :
                    Grid_get(grid', x2, y2) = Grid_get(grid, x2, y2)]_vars

\* C7 without isize::MIN: every other index is classified as the
\* specification says, on the vec and on the x level of the grid.
ClassifiedExceptMin ==
    /\ \A i \in Small(ReadIndex) :
          existence(vec, i) = Classified(positive_len(vec), negative_len(vec), i)
    /\ \A x \in Small(ProbeX) :
          existence(grid, x) = Classified(positive_len(grid), negative_len(grid), x)

\* C7: with sides of length n and m, existence(index) is Positive exactly for
\* 0..n-1, Negative exactly for -1..-m and Nonexistent for every other index.
C7_Classification ==
    /\ \A i \in ReadIndex :
          existence(vec, i) = Classified(positive_len(vec), negative_len(vec), i)
    /\ \A x \in ProbeX :
          existence(grid, x) = Classified(positive_len(grid), negative_len(grid), x)

\* C8: a grid with zero writes reports min_x = max_x = min_y = max_y = 0 and
\* get(0, 0) returns absent.
C8_FreshGrid ==
    GridFresh =>
        /\ min_x(grid) = 0 /\ max_x(grid) = 0
        /\ min_y(grid) = 0 /\ max_y(grid) = 0
        /\ Grid_get(grid, 0, 0) = Ok(None)

\* C8 witness: a get on the grid before any set returned absent.
C8_Witness ==
    caller = "grid" /\ nsets = 0 /\ ret = Returned("get", Ok(None))

\* C9: in every reachable state min_x <= max_x and min_y <= max_y.
C9_MinLeMax ==
    min_x(grid) <= max_x(grid) /\ min_y(grid) <= max_y(grid)

\* C9 witness: both x bounds have moved, and the test has moved all four.
C9_Witness ==
    \/ caller = "grid" /\ min_x(grid) < 0 /\ max_x(grid) > 0
    \/ caller = "test" /\ min_x(grid) < 0 /\ max_x(grid) > 0
                       /\ min_y(grid) < 0 /\ max_y(grid) > 0

\* C10: get and get_mut, on the vec and on the grid, leave the storage as it
\* was: both sides, every column, every slot and the four bounds.
C10_ReadsChangeNothing ==
    [][ret'.op \in {"get", "get_mut"} => (grid' = grid /\ vec' = vec)]_vars

\* C10 witness: a get_mut outside what was written returned nothing after a
\* set had grown the grid.
C10_Witness ==
    caller = "grid" /\ nsets > 0 /\ ret = Returned("get_mut", Ok(None))

\* C11: every x that existence classifies as Positive or Negative has a
\* column in its slot, so the column lookup of get and get_mut never meets an
\* empty slot.
C11_ClassifiedHasColumn ==
    \A x \in Small(ProbeX) :
        existence(grid, x) \in {"Positive", "Negative"} => ColumnAt(grid, x) /= None

\* The columns present in the grid.
Columns(self) == {Unwrapped(ColumnAt(self, x)) : x \in {x \in Small(ProbeX) : ColumnAt(self, x) /= None}}

MaxOfTwo(a, b) == IF a >= b THEN a ELSE b
IsPrefix(old, new) == Len(old) <= Len(new) /\ SubSeq(new, 1, Len(old)) = old
AppendedEmpty(old, new) == \A k \in (Len(old) + 1)..Len(new) : new[k] = None

\* assert_size(self, i) grows one side, to exactly the length i needs, by
\* appending empty slots.
GrowsExactly(self, i) ==
    LET r == assert_size(self, i) IN
    /\ ~r.panic
    /\ IF i >= 0
       THEN /\ positive_len(r.val) = MaxOfTwo(positive_len(self), i + 1)
            /\ IsPrefix(self.positive, r.val.positive)
            /\ AppendedEmpty(self.positive, r.val.positive)
            /\ r.val.negative = self.negative
       ELSE /\ negative_len(r.val) = MaxOfTwo(negative_len(self), -i)
            /\ IsPrefix(self.negative, r.val.negative)
            /\ AppendedEmpty(self.negative, r.val.negative)
            /\ r.val.positive = self.positive

LengthsKept(old, new) ==
    positive_len(new) >= positive_len(old) /\ negative_len(new) >= negative_len(old)

\* C12: growing to include i >= 0 makes the non-negative length
\* max(old, i + 1) and leaves the negative side untouched; growing to include
\* i < 0 makes the negative length max(old, |i|) and leaves the non-negative
\* side untouched; every appended slot is empty; and no step ever shortens a
\* side (of the vec, of the x level of the grid, of any column).
C12_GrowthExactAndMonotone ==
    /\ [](/\ \A i \in Small(ReadIndex) : GrowsExactly(vec, i)
          /\ \A x \in Small(ProbeX) : GrowsExactly(grid, x)
          /\ \A c \in Columns(grid) : \A y \in Small(ProbeY) : GrowsExactly(c, y))
    /\ [][/\ LengthsKept(vec, vec')
          /\ LengthsKept(grid, grid')
          /\ \A x \in Small(ProbeX) :
                ColumnAt(grid, x) /= None =>
                    /\ ColumnAt(grid', x) /= None
                    /\ LengthsKept(Unwrapped(ColumnAt(grid, x)),
                                   Unwrapped(ColumnAt(grid', x)))]_vars

\* C12 witness: the vec has grown on both sides, slots appended on the way
\* are still empty, and the latest set targeted an index already inside the
\* grown range.
C12_Witness ==
    /\ caller = "vec" /\ ret.op = "set"
    /\ positive_len(vec) > 1 /\ negative_len(vec) > 1
    /\ \E k \in 1..Len(vec.positive) : vec.positive[k] = None
    /\ last[1] >= 0 /\ last[1] + 1 < positive_len(vec)

\* C13: from every reachable state, Grid::set(x, y, _) and
\* NegativeIndexVec::set(i, _) complete without a panic: no slot outside the
\* current length of a side is indexed and no missing column is unwrapped.
\* The coordinates are those whose growth memory can hold.  Every set a caller
\* made has returned; and in every state a caller can set from (a read leaves
\* it the containers of the state before it) every further set would return.
C13_SetSucceeds ==
    /\ ret.op = "set" => ~ret.panic
    /\ MayRead =>
          /\ \A x \in Small(ProbeX), y \in Small(ProbeY) :
                ~Grid_set(grid, x, y, FreshItem).panic
          /\ \A i \in Small(ReadIndex) :
                ~NegativeIndexVec_set(vec, i, FreshItem).panic
          /\ \A c \in Columns(grid) : \A y \in Small(ProbeY) :
                ~NegativeIndexVec_set(c, y, FreshItem).panic

\* C13 witness: a set created a column on the negative side of a grid whose
\* x level an earlier set had grown, and returned.
C13_Witness ==
    /\ caller = "grid" /\ nsets = 2 /\ ret = Returned("set", Ok(None))
    /\ last[1] < 0 /\ positive_len(grid) > 0 /\ negative_len(grid) > 0

\* C14: a column is present at x exactly when some set(x, _, _) has been
\* performed (slots appended while growing towards a farther x hold none), and
\* a set to an x that already has a column keeps that column: every cell
\* (x, y') with y' other than the written y reads as before.
C14_ColumnIffWritten ==
    /\ [](\A x \in Small(ProbeX) : (ColumnAt(grid, x) /= None) <=> (x \in WrittenXs))
    /\ [][(caller /= "vec" /\ nsets' = nsets + 1 /\ ColumnAt(grid, last'[1]) /= None) =>
             \A y2 \in Small(ProbeY) \ {last'[2]} :
                 NegativeIndexVec_get(Unwrapped(ColumnAt(grid', last'[1])), y2)
                     = NegativeIndexVec_get(Unwrapped(ColumnAt(grid, last'[1])), y2)]_vars

\* C14 witness: a slot inside the grown x range holds no column, and the
\* latest set went to an x whose column an earlier set had created.
C14_Witness ==
    /\ caller = "grid" /\ nsets = 2 /\ ret.op = "set"
    /\ Cardinality(WrittenXs) = 1
    /\ \E x \in Small(ProbeX) :
          existence(grid, x) = "Positive" /\ ColumnAt(grid, x) = None

\* C15: in every reachable state the box contains the origin:
\* min_x <= 0 <= max_x and min_y <= 0 <= max_y, whatever was written.
C15_BoxContainsOrigin ==
    /\ min_x(grid) <= 0 /\ 0 <= max_x(grid)
    /\ min_y(grid) <= 0 /\ 0 <= max_y(grid)

\* C15 witness: only x = 1 has been written and min_x is still 0.
C15_Witness ==
    /\ caller = "grid" /\ nsets > 0 /\ WrittenXs = {1}
    /\ min_x(grid) = 0 /\ max_x(grid) = 1

====
